---- MODULE Spec2Model ----
(***************************************************************************)
(* A state-machine model of threema.gateway.Connection                     *)
(* (src/threema/gateway/__init__.py): the key provider, the session        *)
(* lifecycle, the request dispatcher and the endpoint operations.          *)
(*                                                                         *)
(* Texts (key encodings, file contents, response bodies) are sequences of  *)
(* tokens; a token stands for a run of characters ("private:", "aa") or    *)
(* for one whitespace character (" ", "\n").                               *)
(***************************************************************************)
EXTENDS Integers, Sequences, FiniteSets, TLC

VARIABLES
    phase,        \* "new" before __init__, "ready" after it, "failed" if it raised
    id,           \* Connection.id
    secret,       \* Connection.secret
    _key,         \* Connection._key
    _key_file,    \* Connection._key_file
    _session,     \* Connection._session: the aiohttp.ClientSession and its connector
    scope,        \* "outside" or "inside" a `with connection:` block
    closeCalls,   \* number of times Connection.close() has run (capped)
    expectedKey,  \* the key the most recent successful key write was asked to store
    ctor,         \* the fingerprint arguments __init__ was called with
    last          \* what the most recent operation did

vars == <<phase, id, secret, _key, _key_file, _session, scope, closeCalls,
          expectedKey, ctor, last>>

(***************************************************************************)
(* Bounds                                                                  *)
(***************************************************************************)
MaxFileLen == 3
MaxTextLen == 2
MaxCloseCalls == 2

(***************************************************************************)
(* Python values                                                           *)
(***************************************************************************)
\* None where a key object is expected
NoKey == [type |-> "None", raw |-> ""]
\* None where a string (path, fingerprint, exception) is expected
PyNone == "<None>"

Whitespace == {" ", "\n"}
HexTokens == {"aa", "bb"}

SeqsUpTo(S, n) == UNION {[1..k -> S] : k \in 0..n}

Min(S) == CHOOSE x \in S : \A y \in S : x <= y
Max(S) == CHOOSE x \in S : \A y \in S : x >= y

\* str.strip(): drop leading and trailing whitespace
Strip(s) ==
    LET keep == {i \in 1..Len(s) : s[i] \notin Whitespace}
    IN  IF keep = {} THEN <<>> ELSE SubSeq(s, Min(keep), Max(keep))

\* file.readline(): everything up to and including the first newline
ReadLine(s) ==
    LET nl == {i \in 1..Len(s) : s[i] = "\n"}
    IN  IF nl = {} THEN s ELSE SubSeq(s, 1, Min(nl))

(***************************************************************************)
(* Inputs                                                                  *)
(***************************************************************************)
Ids == {"*MYID001"}
Secrets == {"s3cr3t"}
KeyObjects == {[type |-> "private", raw |-> "aa"], [type |-> "object", raw |-> "k1"]}
KeyTexts == SeqsUpTo({"private:", "public:", "aa", "bb"}, MaxTextLen)
Paths == {"a.key", "b.key"}
\* files of more than one line
TwoLineFiles == {<<"private:", "bb", "\n", "private:", "aa", "\n">>,
                 <<" ", "private:", "bb", " ", "\n", "\n", "aa">>}
FileContents == SeqsUpTo({"private:", "aa", " ", "\n"}, MaxFileLen) \cup TwoLineFiles
\* what open(path) finds: an unreadable file, or a readable one with its content
Unreadable == [readable |-> FALSE, content |-> <<>>]
FileInputs == {Unreadable} \cup {[readable |-> TRUE, content |-> c] : c \in FileContents}
\* no file is opened for a path of None
FilesAt(path) == IF path = PyNone THEN {Unreadable} ELSE FileInputs
Fingerprints == {PyNone, "caller_fp"}

\* the argument of the key setter: a str, or any other object (None included)
ObjArg(k) == [isStr |-> FALSE, obj |-> k, text |-> <<>>]
StrArg(t) == [isStr |-> TRUE, obj |-> NoKey, text |-> t]
KeyArgs == {ObjArg(k) : k \in KeyObjects \cup {NoKey}} \cup {StrArg(t) : t \in KeyTexts}

(***************************************************************************)
(* Key provider                                                            *)
(***************************************************************************)
\* Key.decode(text, Key.Type.private): "<type>:<hex>" of the expected type
KeyDecode(text) ==
    IF Len(text) = 2 /\ text[1] = "private:" /\ text[2] \in HexTokens
    THEN [ok |-> TRUE, key |-> [type |-> "private", raw |-> text[2]]]
    ELSE [ok |-> FALSE, key |-> NoKey]

\* Connection.key (getter)
KeyGetter(k) ==
    IF k = NoKey
    THEN [outcome |-> "raise", error |-> "GatewayKeyError", value |-> NoKey]
    ELSE [outcome |-> "return", error |-> "", value |-> k]

\* a key setter that swallows a decoding failure and stores None
KeySetter_SwallowsBadText(cur, arg) ==
    IF arg.isStr
    THEN [raised |-> FALSE, error |-> "", key |-> KeyDecode(arg.text).key]
    ELSE [raised |-> FALSE, error |-> "", key |-> arg.obj]

\* Connection.key (setter): the new _key, or the error raised
KeySetter(cur, arg) ==
    IF arg.isStr
    THEN IF KeyDecode(arg.text).ok
         THEN [raised |-> FALSE, error |-> "", key |-> KeyDecode(arg.text).key]
         ELSE [raised |-> TRUE, error |-> "GatewayKeyError", key |-> cur]
    ELSE [raised |-> FALSE, error |-> "", key |-> arg.obj]

\* Connection.key_file (getter)
KeyFileGetter(p) == p

\* a key_file setter that hands None on to the key setter
KeyFileSetter_ClearsKeyOnNone(cur, curFile, path, file) ==
    IF path # PyNone
    THEN IF ~file.readable
         THEN [raised |-> TRUE, error |-> "OSError", key |-> cur, key_file |-> curFile]
         ELSE LET w == KeySetter(cur, StrArg(Strip(ReadLine(file.content))))
              IN  IF w.raised
                  THEN [raised |-> TRUE, error |-> w.error, key |-> cur,
                        key_file |-> curFile]
                  ELSE [raised |-> FALSE, error |-> "", key |-> w.key,
                        key_file |-> path]
    ELSE [raised |-> FALSE, error |-> "", key |-> NoKey, key_file |-> path]

\* a key_file setter that takes the last line of the file
KeyFileSetter_ReadsLastLine(cur, curFile, path, file) ==
    IF path # PyNone
    THEN IF ~file.readable
         THEN [raised |-> TRUE, error |-> "OSError", key |-> cur, key_file |-> curFile]
         ELSE LET c == file.content
                  nl == {i \in 1..(Len(c) - 1) : c[i] = "\n"}
                  lastLine == IF nl = {} THEN c ELSE SubSeq(c, Max(nl) + 1, Len(c))
                  w == KeySetter(cur, StrArg(Strip(lastLine)))
              IN  IF w.raised
                  THEN [raised |-> TRUE, error |-> w.error, key |-> cur,
                        key_file |-> curFile]
                  ELSE [raised |-> FALSE, error |-> "", key |-> w.key,
                        key_file |-> path]
    ELSE [raised |-> FALSE, error |-> "", key |-> cur, key_file |-> path]

\* a key_file setter that records the path before it reads the file
KeyFileSetter_RecordsPathFirst(cur, curFile, path, file) ==
    IF path # PyNone
    THEN IF ~file.readable
         THEN [raised |-> TRUE, error |-> "OSError", key |-> cur, key_file |-> path]
         ELSE LET w == KeySetter(cur, StrArg(Strip(ReadLine(file.content))))
              IN  IF w.raised
                  THEN [raised |-> TRUE, error |-> w.error, key |-> cur,
                        key_file |-> path]
                  ELSE [raised |-> FALSE, error |-> "", key |-> w.key,
                        key_file |-> path]
    ELSE [raised |-> FALSE, error |-> "", key |-> cur, key_file |-> path]

\* Connection.key_file (setter): the new _key and _key_file, or the error raised
KeyFileSetter(cur, curFile, path, file) ==
    IF path # PyNone
    THEN IF ~file.readable
         THEN [raised |-> TRUE, error |-> "OSError", key |-> cur, key_file |-> curFile]
         ELSE LET w == KeySetter(cur, StrArg(Strip(ReadLine(file.content))))
              IN  IF w.raised
                  THEN [raised |-> TRUE, error |-> w.error, key |-> cur,
                        key_file |-> curFile]
                  ELSE [raised |-> FALSE, error |-> "", key |-> w.key,
                        key_file |-> path]
    ELSE [raised |-> FALSE, error |-> "", key |-> cur, key_file |-> path]

(***************************************************************************)
(* Session                                                                 *)
(***************************************************************************)
\* Connection.fingerprint, the built-in fallback pin
fingerprint == "builtin_fp"

NoSession == [open |-> FALSE, closed |-> FALSE, pin |-> PyNone, releases |-> 0]

\* aiohttp.ClientSession(connector=TCPConnector(fingerprint=fp))
NewSession(fp) == [open |-> TRUE, closed |-> FALSE, pin |-> fp, releases |-> 0]

\* aiohttp.ClientSession.close(): releases the connector unless already closed
ClientSessionClose(s) ==
    IF s.closed THEN s
    ELSE [s EXCEPT !.closed = TRUE, !.open = FALSE, !.releases = @ + 1]

\* a close that closes the connector itself, past the session's own guard
close_ReleasesConnector(s) ==
    [s EXCEPT !.closed = TRUE, !.open = FALSE, !.releases = @ + 1]

\* a close that does not reach the session
close_Noop(s) == s

\* Connection.close
close(s) == ClientSessionClose(s)

\* an __exit__ that does not close
ExitSession_Noop(s) == s

\* Connection.__exit__(*_): closes, and returns None, so the exception goes on
ExitSession(s) == close(s)
ExitSuppresses == FALSE

(***************************************************************************)
(* What an operation did                                                   *)
(***************************************************************************)
NoResponse == [status |-> 0, state |-> "none", body |-> <<>>]

Result(op, outcome, error, value) ==
    [op |-> op, outcome |-> outcome, error |-> error, value |-> value,
     sent |-> <<>>, response |-> NoResponse, arg |-> PyNone, read |-> <<>>]

(***************************************************************************)
(* Construction                                                            *)
(***************************************************************************)
\* an __init__ that forgets the built-in fallback
InitFingerprint_NoFallback(fp, verify_fingerprint) == fp

\* Connection.__init__: the pin the connector is built with
InitFingerprint(fp, verify_fingerprint) ==
    IF fp = PyNone /\ verify_fingerprint THEN fingerprint ELSE fp

__init__(i, s, key, key_file, file, fp, verify_fingerprint) ==
    LET w1 == KeySetter(NoKey, key)
        w2 == KeyFileSetter(w1.key, PyNone, key_file, file)
    IN  /\ phase = "new"
        /\ _session' = NewSession(InitFingerprint(fp, verify_fingerprint))
        /\ id' = i
        /\ secret' = s
        /\ IF w1.raised
           THEN /\ _key' = NoKey
                /\ _key_file' = PyNone
                /\ phase' = "failed"
                /\ last' = Result("__init__", "raise", w1.error, PyNone)
           ELSE IF w2.raised
           THEN /\ _key' = w1.key
                /\ _key_file' = PyNone
                /\ phase' = "failed"
                /\ last' = Result("__init__", "raise", w2.error, PyNone)
           ELSE /\ _key' = w2.key
                /\ _key_file' = w2.key_file
                /\ phase' = "ready"
                /\ last' = Result("__init__", "return", "", PyNone)
        /\ expectedKey' =
               IF w1.raised \/ w2.raised THEN NoKey
               ELSE IF key_file # PyNone
               THEN KeyDecode(Strip(ReadLine(file.content))).key
               ELSE IF key.isStr THEN KeyDecode(key.text).key
               ELSE key.obj
        /\ ctor' = [fingerprint |-> fp, verify_fingerprint |-> verify_fingerprint]
        /\ UNCHANGED <<scope, closeCalls>>

Construct ==
    /\ phase = "new"
    /\ \E i \in Ids, s \in Secrets, key \in KeyArgs, key_file \in Paths \cup {PyNone},
          fp \in Fingerprints, verify_fingerprint \in BOOLEAN :
           \E file \in FilesAt(key_file) :
               __init__(i, s, key, key_file, file, fp, verify_fingerprint)

(***************************************************************************)
(* Key provider operations                                                 *)
(***************************************************************************)
\* value = connection.key
KeyRead ==
    /\ phase = "ready"
    /\ LET r == KeyGetter(_key)
       IN  last' = Result("key", r.outcome, r.error, r.value)
    /\ UNCHANGED <<ctor, phase, id, secret, _key, _key_file, _session, scope, closeCalls,
                   expectedKey>>

\* connection.key = arg
KeyWrite ==
    /\ phase = "ready"
    /\ \E arg \in KeyArgs :
        LET w == KeySetter(_key, arg)
        IN  /\ phase = "ready"
            /\ _key' = w.key
            /\ last' = [Result("key=", IF w.raised THEN "raise" ELSE "return",
                               w.error, PyNone)
                        EXCEPT !.arg = IF arg.isStr THEN "str"
                                       ELSE IF arg.obj = NoKey THEN PyNone ELSE "obj"]
            /\ expectedKey' =
                   IF arg.isStr
                   THEN IF KeyDecode(arg.text).ok THEN KeyDecode(arg.text).key
                        ELSE expectedKey
                   ELSE arg.obj
            /\ UNCHANGED <<ctor, phase, id, secret, _key_file, _session, scope, closeCalls>>

\* path = connection.key_file
KeyFileRead ==
    /\ phase = "ready"
    /\ last' = Result("key_file", "return", "", KeyFileGetter(_key_file))
    /\ UNCHANGED <<ctor, phase, id, secret, _key, _key_file, _session, scope, closeCalls,
                   expectedKey>>

\* connection.key_file = path
KeyFileWrite ==
    /\ phase = "ready"
    /\ \E path \in Paths \cup {PyNone} : \E file \in FilesAt(path) :
        \E w \in {KeyFileSetter(_key, _key_file, path, file)},
           line \in {Strip(ReadLine(file.content))} :
            /\ phase = "ready"
            /\ _key' = w.key
            /\ _key_file' = w.key_file
            /\ last' = [Result("key_file=", IF w.raised THEN "raise" ELSE "return",
                               w.error, PyNone)
                        EXCEPT !.arg = path,
                               !.read = IF w.raised \/ path = PyNone THEN <<>>
                                        ELSE file.content]
            /\ expectedKey' =
                   IF path # PyNone /\ file.readable /\ KeyDecode(line).ok
                   THEN KeyDecode(line).key
                   ELSE expectedKey
            /\ UNCHANGED <<ctor, phase, id, secret, _session, scope, closeCalls>>

(***************************************************************************)
(* Session lifecycle operations                                            *)
(***************************************************************************)
\* connection.close()
Close ==
    /\ phase = "ready"
    /\ closeCalls < MaxCloseCalls
    /\ _session' = close(_session)
    /\ closeCalls' = closeCalls + 1
    /\ last' = Result("close", "return", "", PyNone)
    /\ UNCHANGED <<ctor, phase, id, secret, _key, _key_file, scope, expectedKey>>

\* with connection: ...   (__enter__ returns self)
Enter ==
    /\ phase = "ready"
    /\ scope = "outside"
    /\ scope' = "inside"
    /\ last' = Result("__enter__", "return", "", PyNone)
    /\ UNCHANGED <<ctor, phase, id, secret, _key, _key_file, _session, closeCalls,
                   expectedKey>>

\* the block ends, normally (exc = None) or by an exception: __exit__ runs
Exit ==
    \E exc \in {PyNone, "BodyError"} :
        /\ phase = "ready"
        /\ scope = "inside"
        /\ closeCalls < MaxCloseCalls
        /\ scope' = "outside"
        /\ _session' = ExitSession(_session)
        /\ closeCalls' = closeCalls + 1
        /\ last' = [Result("__exit__",
                           IF exc # PyNone /\ ~ExitSuppresses THEN "raise" ELSE "return",
                           IF exc # PyNone /\ ~ExitSuppresses THEN exc ELSE "",
                           PyNone)
                    EXCEPT !.arg = exc]
        /\ UNCHANGED <<ctor, phase, id, secret, _key, _key_file, expectedKey>>

(***************************************************************************)
(* Request dispatcher                                                      *)
(***************************************************************************)
\* Python dicts are functions from the keys present to their values
EmptyDict == <<>>
SetDefault(d, k, v) == IF k \in DOMAIN d THEN d ELSE d @@ (k :> v)
DictsOver(keys, vals) == UNION {[K -> vals] : K \in SUBSET keys}

\* Connection.urls
urls ==
    [get_public_key |-> "https://msgapi.threema.ch/pubkeys/{}",
     get_id_by_phone |-> "https://msgapi.threema.ch/lookup/phone/{}",
     get_id_by_phone_hash |-> "https://msgapi.threema.ch/lookup/phone_hash/{}",
     get_id_by_email |-> "https://msgapi.threema.ch/lookup/email/{}",
     get_id_by_email_hash |-> "https://msgapi.threema.ch/lookup/email_hash/{}",
     get_reception_capabilities |-> "https://msgapi.threema.ch/capabilities/{}",
     get_credits |-> "https://msgapi.threema.ch/credits",
     send_simple |-> "https://msgapi.threema.ch/send_simple",
     send_e2e |-> "https://msgapi.threema.ch/send_e2e",
     upload_blob |-> "https://msgapi.threema.ch/upload_blob",
     download_blob |-> "https://msgapi.threema.ch/blobs/{}"]

\* urls[name].format(value)
Format(name, value) == [template |-> urls[name], value |-> value]

Request(method, url, params, data) ==
    [method |-> method, url |-> url, params |-> params, data |-> data]

\* Connection._get: the request handed to session.get
_get(url, kwargs) ==
    LET k1 == SetDefault(kwargs, "params", EmptyDict)
        p1 == SetDefault(k1["params"], "from", id)
        p2 == SetDefault(p1, "secret", secret)
    IN  Request("GET", url, p2, EmptyDict)

\* a _send that assigns the credentials instead of defaulting them
SendRequest_Overwrites(url, data) ==
    Request("POST", url, EmptyDict,
            (("from" :> id) @@ ("secret" :> secret)) @@ data)

\* Connection._send: the request handed to session.post
SendRequest(url, data) ==
    LET d1 == SetDefault(data, "from", id)
        d2 == SetDefault(d1, "secret", secret)
    IN  Request("POST", url, EmptyDict, d2)

\* an _upload that sends the credentials as form fields beside the blob
UploadRequest_CredentialsInBody(url, data) ==
    Request("POST", url, EmptyDict,
            ("from" :> id) @@ ("secret" :> secret) @@ ("blob" :> data))

\* Connection._upload: the request handed to session.post
UploadRequest(url, data) ==
    Request("POST", url, ("from" :> id) @@ ("secret" :> secret), ("blob" :> data))

\* a request as it goes out: over the connector of session s, under its pin
OnSession(s, req) ==
    [method |-> req.method, url |-> req.url, params |-> req.params,
     data |-> req.data, pin |-> s.pin]

\* aiohttp.ClientSession.get / post: a closed session refuses, the transport may
\* fail, or a response arrives
Transport(s, req, reply) ==
    IF s.closed
    THEN [ok |-> FALSE, error |-> "RuntimeError", sent |-> <<>>]
    ELSE IF ~reply.arrives
    THEN [ok |-> FALSE, error |-> "ClientError", sent |-> <<OnSession(s, req)>>]
    ELSE [ok |-> TRUE, error |-> "", sent |-> <<OnSession(s, req)>>]

(***************************************************************************)
(* Responses                                                               *)
(***************************************************************************)
\* how a handler leaves the response: outcome, error, value, and the state of
\* the response body ("open", "consumed" by text(), or "released")
Handled(outcome, error, value, state) ==
    [outcome |-> outcome, error |-> error, value |-> value, state |-> state]

\* util.raise_server_error(response, error): releases the response, then
\* raises a member of the given family
raise_server_error(response, error) == Handled("raise", error, PyNone, "released")

\* libnacl.encode.hex_decode: pairs of hex digits to bytes
HexDigits == {"6", "f"}
HexDecode(text) ==
    IF Len(text) % 2 = 0 /\ \A i \in 1..Len(text) : text[i] \in HexDigits
    THEN [ok |-> TRUE,
          bytes |-> [i \in 1..(Len(text) \div 2) |-> <<text[2 * i - 1], text[2 * i]>>]]
    ELSE [ok |-> FALSE, bytes |-> <<>>]

\* str.split(','): the pieces between the commas
RECURSIVE Split(_)
Split(text) ==
    LET commas == {i \in 1..Len(text) : text[i] = ","}
    IN  IF commas = {} THEN <<text>>
        ELSE <<SubSeq(text, 1, Min(commas) - 1)>>
             \o Split(SubSeq(text, Min(commas) + 1, Len(text)))

\* ReceptionCapability
ReceptionCapability == {"text", "image", "video", "audio", "file"}
\* ReceptionCapability(value): the enumerant of that value, else ValueError
IsCapability(piece) == Len(piece) = 1 /\ piece[1] \in ReceptionCapability

\* int(text)
Digits == {"4", "2"}
DigitValue(d) == IF d = "4" THEN 4 ELSE 2
RECURSIVE Decimal(_)
Decimal(ds) ==
    IF ds = <<>> THEN 0
    ELSE 10 * Decimal(SubSeq(ds, 1, Len(ds) - 1)) + DigitValue(ds[Len(ds)])
IntParse(text) ==
    LET s == Strip(text)
        neg == s # <<>> /\ s[1] = "-"
        ds == IF neg THEN Tail(s) ELSE s
    IN  IF ds # <<>> /\ \A i \in 1..Len(ds) : ds[i] \in Digits
        THEN [ok |-> TRUE, value |-> IF neg THEN -Decimal(ds) ELSE Decimal(ds)]
        ELSE [ok |-> FALSE, value |-> 0]

(***************************************************************************)
(* Endpoint handlers: what each method does with the response              *)
(***************************************************************************)
get_public_key(response) ==
    IF response.status = 200
    THEN IF HexDecode(response.body).ok
         THEN Handled("return", "", [pk |-> HexDecode(response.body).bytes], "consumed")
         ELSE Handled("raise", "ValueError", PyNone, "consumed")
    ELSE raise_server_error(response, "KeyServerError")

\* a mode check without the "more than one mode" test
get_id_check_NoCount(mode) ==
    LET modes == {"phone", "phone_hash", "email", "email_hash"}
    IN  IF Cardinality(DOMAIN mode \ modes) > 0 THEN "IDError"
        ELSE IF DOMAIN mode = {} THEN "KeyError"
        ELSE ""

\* Connection.get_id, the mode check: the error raised before any request
get_id_check(mode) ==
    LET modes == {"phone", "phone_hash", "email", "email_hash"}
    IN  IF Cardinality(DOMAIN mode \ modes) > 0 THEN "IDError"
        ELSE IF Cardinality(DOMAIN mode) > 1 THEN "IDError"
        ELSE IF DOMAIN mode = {} THEN "KeyError"
        ELSE ""

\* a modes table with two entries exchanged
get_id_url_Swapped(m) ==
    CASE m = "phone" -> "get_id_by_phone_hash"
      [] m = "phone_hash" -> "get_id_by_phone"
      [] m = "email" -> "get_id_by_email"
      [] m = "email_hash" -> "get_id_by_email_hash"

\* Connection.get_id: modes[mode]
get_id_url(m) ==
    CASE m = "phone" -> "get_id_by_phone"
      [] m = "phone_hash" -> "get_id_by_phone_hash"
      [] m = "email" -> "get_id_by_email"
      [] m = "email_hash" -> "get_id_by_email_hash"

get_id(response) ==
    IF response.status = 200
    THEN Handled("return", "", response.body, "consumed")
    ELSE raise_server_error(response, "IDServerError")

\* a capability parser that does not strip the tokens
get_reception_capabilities_NoStrip(response) ==
    IF response.status = 200
    THEN LET pieces == Split(response.body)
         IN  IF \A i \in 1..Len(pieces) : IsCapability(pieces[i])
             THEN Handled("return", "",
                          {pieces[i][1] : i \in 1..Len(pieces)}, "consumed")
             ELSE Handled("raise", "ReceptionCapabilitiesError", PyNone, "released")
    ELSE raise_server_error(response, "ReceptionCapabilitiesServerError")

get_reception_capabilities(response) ==
    IF response.status = 200
    THEN LET pieces == Split(response.body)
             stripped == [i \in 1..Len(pieces) |-> Strip(pieces[i])]
         IN  IF \A i \in 1..Len(stripped) : IsCapability(stripped[i])
             THEN Handled("return", "",
                          {stripped[i][1] : i \in 1..Len(stripped)}, "consumed")
             ELSE Handled("raise", "ReceptionCapabilitiesError", PyNone, "released")
    ELSE raise_server_error(response, "ReceptionCapabilitiesServerError")

get_credits(response) ==
    IF response.status = 200
    THEN IF IntParse(response.body).ok
         THEN Handled("return", "", IntParse(response.body).value, "consumed")
         ELSE Handled("raise", "ValueError", PyNone, "consumed")
    ELSE raise_server_error(response, "CreditsServerError")

_send(response) ==
    IF response.status = 200
    THEN Handled("return", "", response.body, "consumed")
    ELSE raise_server_error(response, "MessageServerError")

_upload(response) ==
    IF response.status = 200
    THEN Handled("return", "", response.body, "consumed")
    ELSE raise_server_error(response, "BlobServerError")

\* a download that returns the response whatever its status
download_IgnoresStatus(response) == Handled("return", "", "response", "open")

\* a download that raises its error itself, without raise_server_error
download_RaisesDirectly(response) ==
    IF response.status = 200
    THEN Handled("return", "", "response", "open")
    ELSE Handled("raise", "BlobServerError", PyNone, "open")

\* a download that reads the body and returns its text
download_ReadsBody(response) ==
    IF response.status = 200
    THEN Handled("return", "", response.body, "consumed")
    ELSE raise_server_error(response, "BlobServerError")

download(response) ==
    IF response.status = 200
    THEN Handled("return", "", "response", "open")
    ELSE raise_server_error(response, "BlobServerError")

(***************************************************************************)
(* Endpoint operations                                                     *)
(***************************************************************************)
Statuses == {200, 204, 404}
TextBodies == SeqsUpTo({"ECHOECHO", "\n"}, 1)
HexBodies == SeqsUpTo({"6", "f", "x"}, MaxTextLen)
IntBodies == SeqsUpTo({"4", "2", "-", " "}, MaxTextLen)
MaxCapLen == 3
CapBodies == SeqsUpTo({"text", "image", "bogus", ",", " "}, MaxCapLen)
Targets == {"ECHOECHO"}
Blobs == {"blob", "\\x89PNG"}

\* what the gateway does with a request: no answer, a 200 with a body, or
\* another status with a short body
Replies(bodies) ==
    {[arrives |-> FALSE, status |-> 0, body |-> <<>>]}
    \cup {[arrives |-> TRUE, status |-> 200, body |-> b] : b \in bodies}
    \cup {[arrives |-> TRUE, status |-> st, body |-> b] :
             st \in Statuses \ {200}, b \in {c \in bodies : Len(c) <= 1}}

\* an invocation that sends the request once more after a non-200 response
Invoke_Retries(op, arg, req, reply, h) ==
    LET t == Transport(_session, req, reply)
        sent == IF t.ok /\ reply.status # 200 THEN t.sent \o t.sent ELSE t.sent
    IN  /\ phase = "ready"
        /\ last' = IF t.ok
                   THEN [op |-> op, outcome |-> h.outcome, error |-> h.error,
                         value |-> h.value, sent |-> sent,
                         response |-> [status |-> reply.status, state |-> h.state,
                                       body |-> reply.body],
                         arg |-> arg, read |-> <<>>]
                   ELSE [op |-> op, outcome |-> "raise", error |-> t.error,
                         value |-> PyNone, sent |-> sent, response |-> NoResponse,
                         arg |-> arg, read |-> <<>>]
        /\ UNCHANGED <<ctor, phase, id, secret, _key, _key_file, _session, scope,
                       closeCalls, expectedKey>>

\* one invocation: the request goes out on the session, the handler h deals
\* with the response
Invoke(op, arg, req, reply, h) ==
    LET t == Transport(_session, req, reply)
    IN  /\ phase = "ready"
        /\ last' = IF t.ok
                   THEN [op |-> op, outcome |-> h.outcome, error |-> h.error,
                         value |-> h.value, sent |-> t.sent,
                         response |-> [status |-> reply.status, state |-> h.state,
                                       body |-> reply.body],
                         arg |-> arg, read |-> <<>>]
                   ELSE [op |-> op, outcome |-> "raise", error |-> t.error,
                         value |-> PyNone, sent |-> t.sent, response |-> NoResponse,
                         arg |-> arg, read |-> <<>>]
        /\ UNCHANGED <<ctor, phase, id, secret, _key, _key_file, _session, scope,
                       closeCalls, expectedKey>>

GetPublicKey ==
    \E target \in Targets, reply \in Replies(HexBodies) :
        Invoke("get_public_key", target,
               _get(Format("get_public_key", target), EmptyDict), reply,
               get_public_key(reply))

\* the keyword arguments a caller may pass, each with its own value
ModeValues ==
    [phone |-> "41791234567", phone_hash |-> "ad398f4d", email |-> "test@threema.ch",
     email_hash |-> "1ea093239c", bogus |-> "x"]
GetIdModes == {[k \in K |-> ModeValues[k]] : K \in SUBSET DOMAIN ModeValues}

GetId ==
    \E mode \in GetIdModes, reply \in Replies(TextBodies) :
        IF get_id_check(mode) # ""
        THEN /\ phase = "ready"
             /\ last' = [Result("get_id", "raise", get_id_check(mode), PyNone)
                         EXCEPT !.arg = DOMAIN mode]
             /\ UNCHANGED <<ctor, phase, id, secret, _key, _key_file, _session, scope,
                            closeCalls, expectedKey>>
        ELSE \E m \in DOMAIN mode :
                Invoke("get_id", DOMAIN mode,
                       _get(Format(get_id_url(m), mode[m]), EmptyDict), reply,
                       get_id(reply))

GetReceptionCapabilities ==
    \E target \in Targets, reply \in Replies(CapBodies) :
        Invoke("get_reception_capabilities", target,
               _get(Format("get_reception_capabilities", target), EmptyDict), reply,
               get_reception_capabilities(reply))

GetCredits ==
    \E reply \in Replies(IntBodies) :
        Invoke("get_credits", PyNone, _get(urls["get_credits"], EmptyDict), reply,
               get_credits(reply))

SendData == DictsOver({"from", "secret", "to"}, {"OTHERID1"})

SendSimple ==
    \E data \in SendData, reply \in Replies(TextBodies) :
        Invoke("send_simple", data, SendRequest(urls["send_simple"], data), reply,
               _send(reply))

SendE2E ==
    \E data \in SendData, reply \in Replies(TextBodies) :
        Invoke("send_e2e", data, SendRequest(urls["send_e2e"], data), reply,
               _send(reply))

Upload ==
    \E data \in Blobs, reply \in Replies(TextBodies) :
        Invoke("upload", data, UploadRequest(urls["upload_blob"], data), reply,
               _upload(reply))

Download ==
    \E blob \in Targets, reply \in Replies(TextBodies) :
        Invoke("download", blob, _get(Format("download_blob", blob), EmptyDict), reply,
               download(reply))

\* Connection(id, secret): no key, no key file
ConstructWithoutKey ==
    \E i \in Ids, s \in Secrets, fp \in Fingerprints, verify_fingerprint \in BOOLEAN :
        __init__(i, s, ObjArg(NoKey), PyNone, Unreadable, fp, verify_fingerprint)

(***************************************************************************)
(* Specification                                                           *)
(***************************************************************************)
Init ==
    /\ phase = "new"
    /\ id = PyNone
    /\ secret = PyNone
    /\ _key = NoKey
    /\ _key_file = PyNone
    /\ _session = NoSession
    /\ scope = "outside"
    /\ closeCalls = 0
    /\ expectedKey = NoKey
    /\ ctor = [fingerprint |-> PyNone, verify_fingerprint |-> FALSE]
    /\ last = Result("", "return", "", PyNone)

\* the key provider and the session lifecycle
NextKeyProvider ==
    \/ Construct
    \/ KeyRead
    \/ KeyWrite
    \/ KeyFileRead
    \/ KeyFileWrite
    \/ Close
    \/ Enter
    \/ Exit

\* the session lifecycle and the endpoints, on a Connection without a key
NextGateway ==
    \/ ConstructWithoutKey
    \/ Close
    \/ Enter
    \/ Exit
    \/ GetPublicKey
    \/ GetId
    \/ GetReceptionCapabilities
    \/ GetCredits
    \/ SendSimple
    \/ SendE2E
    \/ Upload
    \/ Download

Next == NextKeyProvider \/ NextGateway

Spec == Init /\ [][Next]_vars
SpecKeyProvider == Init /\ [][NextKeyProvider]_vars
SpecGateway == Init /\ [][NextGateway]_vars


(***************************************************************************)
(* Properties                                                              *)
(***************************************************************************)
EndpointOps == {"get_public_key", "get_id", "get_reception_capabilities",
                "get_credits", "send_simple", "send_e2e", "upload", "download"}
SendOps == {"send_simple", "send_e2e"}

\* C1: reading the key raises GatewayKeyError whenever no key is stored, and
\* otherwise returns exactly the key the most recent successful write was asked
\* to store; a read never returns None.
C1_KeyReadRoundTrip ==
    last.op = "key" =>
        /\ _key = NoKey =>
               /\ last.outcome = "raise"
               /\ last.error = "GatewayKeyError"
               /\ expectedKey = NoKey
        /\ _key # NoKey =>
               /\ last.outcome = "return"
               /\ last.value = expectedKey
               /\ last.value # NoKey

\* a key read back after it was set from the first line of a file
C1_Witness ==
    /\ last.op = "key"
    /\ last.outcome = "return"
    /\ last.value = [type |-> "private", raw |-> "aa"]
    /\ _key_file = "b.key"

IsInvalidModeSet(names) ==
    \/ Cardinality(names) # 1
    \/ ~(names \subseteq {"phone", "phone_hash", "email", "email_hash"})

\* C2: get_id with zero modes, with two or more modes, or with a mode name
\* outside {phone, phone_hash, email, email_hash} fails, and no request is sent
\* on the session.
C2_GetIdRejectsBeforeRequest ==
    (last.op = "get_id" /\ IsInvalidModeSet(last.arg)) =>
        /\ last.outcome = "raise"
        /\ last.sent = <<>>
        /\ last.response = NoResponse

\* get_id(phone=..., email=...) on an open session was rejected
C2_Witness ==
    /\ last.op = "get_id"
    /\ last.arg = {"phone", "email"}
    /\ last.outcome = "raise"
    /\ ~_session.closed

\* C3: in each invalid get_id case (zero modes, more than one mode, an
\* unrecognized mode name) the error raised is IDError.
C3_GetIdRaisesIDError ==
    (last.op = "get_id" /\ IsInvalidModeSet(last.arg)) => last.error = "IDError"

\* the fields of a request that carry the credentials
CredentialFields(op, req) == IF op \in SendOps THEN req.data ELSE req.params
\* what the caller supplied for field k, if anything
Supplied(op, arg, k) == op \in SendOps /\ k \in DOMAIN arg

\* C4: every request an endpoint operation sends carries `from` and `secret`;
\* each equals the Connection's id / secret unless the caller of send_simple or
\* send_e2e supplied it, and then the supplied value is sent unchanged.
C4_CredentialsInjected ==
    last.op \in EndpointOps =>
        \A n \in 1..Len(last.sent) :
            LET fields == CredentialFields(last.op, last.sent[n])
            IN  /\ {"from", "secret"} \subseteq DOMAIN fields
                /\ fields["from"] = IF Supplied(last.op, last.arg, "from")
                                    THEN last.arg["from"] ELSE id
                /\ fields["secret"] = IF Supplied(last.op, last.arg, "secret")
                                      THEN last.arg["secret"] ELSE secret

\* send_simple(**{'from': ...}) sent the caller's `from` and the Connection's secret
C4_Witness ==
    /\ last.op = "send_simple"
    /\ Len(last.sent) = 1
    /\ DOMAIN last.arg = {"from"}
    /\ last.sent[1].data["from"] = "OTHERID1"
    /\ last.sent[1].data["secret"] = secret

\* the error family of each endpoint
Family(op) ==
    CASE op = "get_public_key" -> "KeyServerError"
      [] op = "get_id" -> "IDServerError"
      [] op = "get_reception_capabilities" -> "ReceptionCapabilitiesServerError"
      [] op = "get_credits" -> "CreditsServerError"
      [] op \in SendOps -> "MessageServerError"
      [] op \in {"upload", "download"} -> "BlobServerError"

GotResponse == last.op \in EndpointOps /\ last.response.state # "none"

\* C5: whenever the response status is not 200, the operation raises an error of
\* its endpoint's own family and returns nothing to the caller.
C5_NonOkRaisesFamily ==
    (GotResponse /\ last.response.status # 200) =>
        /\ last.outcome = "raise"
        /\ last.error = Family(last.op)
        /\ last.value = PyNone

\* download got a 204 and raised
C5_Witness ==
    /\ last.op = "download"
    /\ last.response.status = 204
    /\ last.outcome = "raise"

\* C6: whenever an endpoint operation raises after a response was received, the
\* response body has been consumed or the response released.
C6_ErrorsLeaveNoOpenResponse ==
    (GotResponse /\ last.outcome = "raise") =>
        last.response.state \in {"consumed", "released"}

\* get_credits failed to parse a 200 body
C6_Witness ==
    /\ last.op = "get_credits"
    /\ last.response.status = 200
    /\ last.outcome = "raise"
    /\ last.error = "ValueError"

\* C7: over any sequence of close() calls and scope exits the session is
\* released once: never twice, and once as soon as one of them has run; closing
\* again raises nothing.
C7_ReleasedOnce ==
    /\ _session.releases <= 1
    /\ closeCalls >= 1 => (_session.releases = 1 /\ _session.closed)
    /\ last.op = "close" => last.outcome = "return"
    /\ last.op = "__exit__" => last.error \in {"", last.arg}

\* a scope exit after an earlier close
C7_Witness ==
    /\ last.op = "__exit__"
    /\ closeCalls = 2
    /\ _session.releases = 1

\* C8: after close() or a scope exit, every endpoint operation raises and sends
\* no request.
C8_NoSuccessAfterRelease ==
    (closeCalls >= 1 /\ last.op \in EndpointOps) =>
        /\ last.outcome = "raise"
        /\ last.sent = <<>>

\* a send on a closed session was refused
C8_Witness ==
    /\ closeCalls >= 1
    /\ last.op = "send_e2e"
    /\ last.error = "RuntimeError"

\* C9: leaving the scoped block leaves the session released, whether the block
\* ended normally or by an exception, and the exception still reaches the caller.
C9_ScopeExitReleases ==
    last.op = "__exit__" =>
        /\ _session.closed
        /\ ~_session.open
        /\ last.arg # PyNone => (last.outcome = "raise" /\ last.error = last.arg)
        /\ last.arg = PyNone => last.outcome = "return"

\* the block raised, the session was released and the exception went on
C9_Witness ==
    /\ last.op = "__exit__"
    /\ last.arg = "BodyError"
    /\ last.outcome = "raise"
    /\ _session.releases = 1
    /\ closeCalls = 1

\* C10 as stated: key = None and key_file = None are both accepted and both
\* clear the key.
C10_NoneClearsKeyEitherPath ==
    (last.op \in {"key=", "key_file="} /\ last.arg = PyNone) =>
        /\ last.outcome = "return"
        /\ KeyGetter(_key).outcome = "raise"

\* C10 amended: key = None and key_file = None are both accepted; key = None
\* clears the key, so that reading it raises GatewayKeyError; key_file = None
\* clears the recorded path and leaves the stored key as it was.
C10_NoneClearsKeyOrPath ==
    /\ [](last.op = "key=" /\ last.arg = PyNone =>
              /\ last.outcome = "return"
              /\ KeyGetter(_key).outcome = "raise"
              /\ KeyGetter(_key).error = "GatewayKeyError")
    /\ [][(last'.op = "key_file=" /\ last'.arg = PyNone) =>
              /\ last'.outcome = "return"
              /\ _key_file' = PyNone
              /\ _key' = _key]_vars

\* key_file = None on a Connection that holds a key and a path
C10_Witness ==
    /\ last.op = "key_file="
    /\ last.arg = PyNone
    /\ _key # NoKey
    /\ KeyGetter(_key).outcome = "return"

\* the pin the constructor arguments call for
ExpectedPin ==
    IF ctor.fingerprint # PyNone THEN ctor.fingerprint
    ELSE IF ctor.verify_fingerprint THEN "builtin_fp"
    ELSE PyNone

\* C11: the pin of the session is set by the constructor and never changes
\* afterwards: the caller's fingerprint when one is given, the built-in one when
\* pinning is requested and none is given, none only when pinning is not
\* requested and none is given; every request goes out under that pin, so a
\* Connection constructed with pinning requested sends none on an unpinned
\* session.
C11_PinFixedAtConstruction ==
    /\ [](phase # "new" =>
              /\ _session.pin = ExpectedPin
              /\ (_session.pin = PyNone) <=>
                     (ctor.fingerprint = PyNone /\ ~ctor.verify_fingerprint))
    /\ [](\A n \in 1..Len(last.sent) :
              /\ last.sent[n].pin = ExpectedPin
              /\ ctor.verify_fingerprint => last.sent[n].pin # PyNone)
    /\ [][phase # "new" => _session'.pin = _session.pin]_vars

\* a request went out under the built-in pin
C11_Witness ==
    /\ ctor = [fingerprint |-> PyNone, verify_fingerprint |-> TRUE]
    /\ last.op = "get_credits"
    /\ Len(last.sent) = 1
    /\ last.sent[1].pin = "builtin_fp"
    /\ closeCalls = 0

\* the first line of a text, without its newline
RECURSIVE FirstLineOf(_)
FirstLineOf(c) ==
    IF c = <<>> \/ Head(c) = "\n" THEN <<>> ELSE <<Head(c)>> \o FirstLineOf(Tail(c))

\* a text without the blanks and newlines at its two ends
RECURSIVE TrimLeft(_)
TrimLeft(c) ==
    IF c # <<>> /\ Head(c) \in {" ", "\n"} THEN TrimLeft(Tail(c)) ELSE c
RECURSIVE TrimRight(_)
TrimRight(c) ==
    IF c # <<>> /\ c[Len(c)] \in {" ", "\n"}
    THEN TrimRight(SubSeq(c, 1, Len(c) - 1)) ELSE c
Trimmed(c) == TrimRight(TrimLeft(c))

\* C12: after a successful key_file write with a path, _key is the key decoded
\* from the whitespace-stripped first line of the file and _key_file is that
\* path, so key_file reads back the path and key reads back the decoded key;
\* the lines after the first have no effect.
C12_KeyFileStoresFirstLineAndPath ==
    (last.op = "key_file=" /\ last.outcome = "return" /\ last.arg # PyNone) =>
        LET decoded == KeyDecode(Trimmed(FirstLineOf(last.read)))
        IN  /\ decoded.ok
            /\ _key = decoded.key
            /\ _key_file = last.arg
            /\ KeyFileGetter(_key_file) = last.arg
            /\ KeyGetter(_key) = [outcome |-> "return", error |-> "",
                                  value |-> decoded.key]

\* a file of two keys was read: the first one is stored
C12_Witness ==
    /\ last.op = "key_file="
    /\ last.outcome = "return"
    /\ last.arg = "a.key"
    /\ last.read = <<"private:", "bb", "\n", "private:", "aa", "\n">>
    /\ _key = [type |-> "private", raw |-> "bb"]

\* C13: upload sends the Connection's id and secret as the query parameters
\* `from` and `secret`, and the payload as the only body field, `blob`; the
\* credentials are not among the body fields.
C13_UploadCredentialsInQuery ==
    last.op = "upload" =>
        \A n \in 1..Len(last.sent) :
            LET req == last.sent[n]
            IN  /\ req.method = "POST"
                /\ DOMAIN req.params = {"from", "secret"}
                /\ req.params["from"] = id
                /\ req.params["secret"] = secret
                /\ DOMAIN req.data = {"blob"}
                /\ req.data["blob"] = last.arg

\* an upload went out
C13_Witness ==
    /\ last.op = "upload"
    /\ last.arg = "\\x89PNG"
    /\ Len(last.sent) = 1
    /\ last.sent[1].url = "https://msgapi.threema.ch/upload_blob"
    /\ last.response.status = 200

\* a text without its blanks and newlines
RECURSIVE WithoutBlanks(_)
WithoutBlanks(c) ==
    IF c = <<>> THEN <<>>
    ELSE IF Head(c) \in {" ", "\n"} THEN WithoutBlanks(Tail(c))
    ELSE <<Head(c)>> \o WithoutBlanks(Tail(c))

CapabilityNames == {"text", "image", "video", "audio", "file"}

\* a body that is capability names separated by single commas, blanks apart:
\* name, comma, name, ..., name
IsCapabilityList(body) ==
    LET c == WithoutBlanks(body)
    IN  /\ Len(c) % 2 = 1
        /\ \A i \in 1..Len(c) :
               IF i % 2 = 1 THEN c[i] \in CapabilityNames ELSE c[i] = ","

NamesIn(body) == {body[i] : i \in {j \in 1..Len(body) : body[j] \in CapabilityNames}}

\* C14: on a 200 response get_reception_capabilities returns the set of the
\* capabilities named by the comma-separated, whitespace-stripped tokens of the
\* body when every token names one; if any token does not (an empty one
\* included) it raises the capability-parse error, returns nothing, and the
\* response has been released.
C14_CapabilitiesParsed ==
    (last.op = "get_reception_capabilities" /\ last.response.state # "none"
        /\ last.response.status = 200) =>
        IF IsCapabilityList(last.response.body)
        THEN /\ last.outcome = "return"
             /\ last.value = NamesIn(last.response.body)
        ELSE /\ last.outcome = "raise"
             /\ last.error = "ReceptionCapabilitiesError"
             /\ last.value = PyNone
             /\ last.response.state = "released"

\* "text,text" came back as the one-element set
C14_Witness ==
    /\ last.op = "get_reception_capabilities"
    /\ last.response.status = 200
    /\ last.response.body = <<"text", ",", "text">>
    /\ last.outcome = "return"
    /\ last.value = {"text"}

\* the invocation got past its local checks (only get_id has any)
ValidationPassed == last.op # "get_id" \/ ~IsInvalidModeSet(last.arg)
\* the invocation failed: no response, or a response that is not a 200
RequestFailed ==
    ValidationPassed /\ (last.response.state = "none" \/ last.response.status # 200)

\* C15 as stated: an invocation sends at most one request, exactly one when its
\* local validation passes, and a failed request surfaces as an error.
C15_OneRequestWhenValid ==
    last.op \in EndpointOps =>
        /\ Len(last.sent) <= 1
        /\ ValidationPassed => Len(last.sent) = 1
        /\ RequestFailed => last.outcome = "raise"

\* C15 amended: an invocation sends at most one request, exactly one when its
\* local validation passes and the session has not been closed, and none
\* otherwise; a failed request is not sent again and surfaces as an error.
C15_OneRequestWhenValidAndOpen ==
    last.op \in EndpointOps =>
        /\ Len(last.sent) <= 1
        /\ (ValidationPassed /\ ~_session.closed) <=> Len(last.sent) = 1
        /\ RequestFailed => last.outcome = "raise"

\* a 404 was answered by an error after one request
C15_Witness ==
    /\ last.op = "get_public_key"
    /\ last.response.status = 404
    /\ Len(last.sent) = 1
    /\ last.outcome = "raise"

TextOps == {"upload", "send_simple", "send_e2e", "get_id"}

\* C16: on a 200 download returns the response object itself, its body neither
\* read nor released; upload, send_simple, send_e2e and get_id return the body
\* text unchanged; download returns no response whose status is not 200.
C16_DownloadReturnsLiveResponse ==
    /\ (last.op = "download" /\ GotResponse /\ last.response.status = 200) =>
           /\ last.outcome = "return"
           /\ last.response.state = "open"
           /\ last.value = "response"
    /\ (last.op = "download" /\ last.outcome = "return") =>
           last.response.status = 200
    /\ (last.op \in TextOps /\ GotResponse /\ last.response.status = 200) =>
           /\ last.outcome = "return"
           /\ last.value = last.response.body
           /\ last.response.state = "consumed"

\* a download came back with its response still open
C16_Witness ==
    /\ last.op = "download"
    /\ last.outcome = "return"
    /\ last.response.state = "open"
    /\ last.response.body = <<"ECHOECHO">>

\* the lookup path of each mode, as the gateway documents it
LookupPath(m) ==
    CASE m = "phone" -> "https://msgapi.threema.ch/lookup/phone/{}"
      [] m = "phone_hash" -> "https://msgapi.threema.ch/lookup/phone_hash/{}"
      [] m = "email" -> "https://msgapi.threema.ch/lookup/email/{}"
      [] m = "email_hash" -> "https://msgapi.threema.ch/lookup/email_hash/{}"

\* the value the caller gave for each mode
GivenValue(m) ==
    CASE m = "phone" -> "41791234567"
      [] m = "phone_hash" -> "ad398f4d"
      [] m = "email" -> "test@threema.ch"
      [] m = "email_hash" -> "1ea093239c"

\* C17: get_id with exactly one recognized mode sends its one GET to the lookup
\* path of that mode, with the given value in the placeholder, and on a 200
\* returns the body text.
C17_GetIdUsesPathOfMode ==
    (last.op = "get_id" /\ ~IsInvalidModeSet(last.arg)) =>
        LET m == CHOOSE x \in last.arg : TRUE
        IN  /\ Len(last.sent) <= 1
            /\ ~_session.closed => Len(last.sent) = 1
            /\ \A n \in 1..Len(last.sent) :
                   /\ last.sent[n].method = "GET"
                   /\ last.sent[n].url = [template |-> LookupPath(m),
                                          value |-> GivenValue(m)]
            /\ (GotResponse /\ last.response.status = 200) =>
                   (last.outcome = "return" /\ last.value = last.response.body)

\* a lookup by phone hash
C17_Witness ==
    /\ last.op = "get_id"
    /\ last.arg = {"phone_hash"}
    /\ Len(last.sent) = 1
    /\ last.sent[1].url.value = "ad398f4d"
    /\ last.outcome = "return"
    /\ last.value = <<"ECHOECHO">>

\* C18: a key write that fails leaves _key and _key_file as they were.
C18_FailedWriteChangesNothing ==
    [][(last'.op \in {"key=", "key_file="} /\ last'.outcome = "raise") =>
           (_key' = _key /\ _key_file' = _key_file)]_vars

\* a write of b.key failed on a Connection that holds a key read from a.key
C18_Witness ==
    /\ last.op = "key_file="
    /\ last.outcome = "raise"
    /\ last.arg = "b.key"
    /\ _key_file = "a.key"
    /\ _key = [type |-> "private", raw |-> "aa"]

\* C19: if __init__ fails on the key or the key file, the session it opened is
\* not left open.
C19_FailedConstructionLeavesNoSession ==
    phase = "failed" => ~_session.open

====
